---- MODULE Spec2Model ----
(***************************************************************************)
(* LeaveSync: calendar classification, bridge-day (smart leave) detection  *)
(* and leave suggestions.                                                  *)
(*                                                                         *)
(* Dates are proleptic Gregorian ordinals (datetime.date.toordinal()), so  *)
(* d + 1 is the next calendar day and date.weekday() is (d + 6) % 7.       *)
(* A Python dict is a record [order, info]: the keys in insertion order    *)
(* and the value stored under each key.                                    *)
(***************************************************************************)
EXTENDS Integers, Sequences, FiniteSets, TLC

VARIABLES today, user_company, workweek, holidays, leaves, response,
          users, balances, seen, run, designations, policies, approvals

vars == <<today, user_company, workweek, holidays, leaves, response,
          users, balances, seen, run, designations, policies, approvals>>

(***************************************************************************)
(* Bounds of the model.                                                    *)
(***************************************************************************)
MaxHolidays == 2
MaxLeaveLen == 2
MaxLookahead == 13
DomainDays == 12
MaxRequests == 2
DefaultAllocation == 3

(***************************************************************************)
(* datetime.date                                                           *)
(***************************************************************************)
Years == 2025..2027

IsLeap(y) == (y % 4 = 0) /\ ((y % 100 # 0) \/ (y % 400 = 0))

DaysInMonth(y, m) ==
    IF m = 2 THEN (IF IsLeap(y) THEN 29 ELSE 28)
    ELSE IF m \in {4, 6, 9, 11} THEN 30 ELSE 31

DaysBeforeYear(y) ==
    (y - 1) * 365 + ((y - 1) \div 4) - ((y - 1) \div 100) + ((y - 1) \div 400)

RECURSIVE DaysBeforeMonth(_, _)
DaysBeforeMonth(y, m) ==
    IF m = 1 THEN 0 ELSE DaysBeforeMonth(y, m - 1) + DaysInMonth(y, m - 1)

\* date(y, m, d).toordinal()
ToOrdinal(y, m, d) == DaysBeforeYear(y) + DaysBeforeMonth(y, m) + d

YearOf(n) == CHOOSE y \in Years : DaysBeforeYear(y) < n /\ n <= DaysBeforeYear(y + 1)

MonthOf(n) ==
    LET y == YearOf(n)
        r == n - DaysBeforeYear(y)
    IN CHOOSE m \in 1..12 :
          DaysBeforeMonth(y, m) < r /\ r <= DaysBeforeMonth(y, m) + DaysInMonth(y, m)

DayOf(n) == n - DaysBeforeYear(YearOf(n)) - DaysBeforeMonth(YearOf(n), MonthOf(n))

\* date.weekday(): Monday is 0, Sunday is 6
Weekday(n) == (n + 6) % 7

\* date.strftime("%A")
DayName(n) ==
    <<"Monday", "Tuesday", "Wednesday", "Thursday", "Friday", "Saturday", "Sunday">>[Weekday(n) + 1]

\* the dates the model handles, with their (year, month, day) worked out once
Dates == ToOrdinal(2025, 12, 1)..ToOrdinal(2026, 4, 30)
CivilTable == [n \in Dates |-> <<YearOf(n), MonthOf(n), DayOf(n)>>]

\* date.isoformat(): "YYYY-MM-DD", kept as its three fields
IsoFormat(n) == CivilTable[n]

\* date.strftime("%d %b %Y"), kept as its three fields
LabelFormat(n) == <<CivilTable[n][3], CivilTable[n][2], CivilTable[n][1]>>

(***************************************************************************)
(* Database rows                                                           *)
(***************************************************************************)
Me == "alice"
HolidayNames == <<"Festival", "Founders Day", "Harvest Day", "Memorial Day">>
FirstDate == ToOrdinal(2025, 12, 29)
DateDomain == FirstDate..(FirstDate + DomainDays - 1)

\* a Python dict in insertion order
EmptyDict == [order |-> <<>>, info |-> <<>>]

Keys(dm) == DOMAIN dm.info

\* list(d.values())
Values(dm) == [i \in 1..Len(dm.order) |-> dm.info[dm.order[i]]]


(***************************************************************************)
(* QuerySet helpers: rows are kept in primary-key order, .first() is the   *)
(* lowest primary key that passes the filter.                              *)
(***************************************************************************)
NoRow == [pk |-> 0]

RECURSIVE FirstFrom(_, _, _)
FirstFrom(rows, Keep(_), i) ==
    IF i > Len(rows) THEN NoRow
    ELSE IF Keep(rows[i]) THEN rows[i]
    ELSE FirstFrom(rows, Keep, i + 1)

First(rows, Keep(_)) == FirstFrom(rows, Keep, 1)

\* value in list
InList(x, lst) == \E i \in 1..Len(lst) : lst[i] = x

DefaultWorkingDays == <<1, 2, 3, 4, 5>>

\* WorkWeek.objects.filter(company=company).first()
WorkWeekOf(company) ==
    LET Keep(r) == r.company = company IN First(workweek, Keep)

\* _get_working_days(user)
get_working_days ==
    LET ww == WorkWeekOf(user_company)
    IN IF ww # NoRow /\ ww.working_days # <<>> THEN ww.working_days ELSE DefaultWorkingDays

(***************************************************************************)
(* Tooltips: the f-string's fixed text and the value it interpolates.      *)
(***************************************************************************)
WORKDAY_TOOLTIP == <<"Regular Working Day">>
SMART_TOOLTIP == <<"Smart Leave Suggestion: Take off to extend your break!">>
WeekendTooltip(d) == <<"Weekend", DayName(d)>>
HolidayTooltip(h) == <<"holiday", h.name>>
LeaveTooltip(l) == <<"Your Leave", l.leave_type>>

\* variant: a leave date extends a buffer as well
NonWorkTypesWithLeave == {"holiday", "weekend", "leave"}

\* non_work_types = {"holiday", "weekend"}
NonWorkTypes == {"holiday", "weekend"}

(***************************************************************************)
(* _fallback_suggestions: base classification of today+1 .. today+n        *)
(***************************************************************************)
\* Holiday.objects.filter(company=user.company, date=d).first()
FallbackHoliday(d) ==
    LET Keep(h) == h.company = user_company /\ h.date = d IN First(holidays, Keep)

\* LeaveRequest.objects.filter(user=user, start_date__lte=d, end_date__gte=d).first()
FallbackLeave(d) ==
    LET Keep(l) == l.user = Me /\ l.start_date <= d /\ l.end_date >= d IN First(leaves, Keep)

FallbackDay(d, working_days) ==
    IF ~InList(Weekday(d) + 1, working_days)
    THEN [type |-> "weekend", tooltip |-> WeekendTooltip(d)]
    ELSE IF FallbackHoliday(d) # NoRow
    THEN [type |-> "holiday", tooltip |-> HolidayTooltip(FallbackHoliday(d))]
    ELSE IF FallbackLeave(d) # NoRow
    THEN [type |-> "leave", tooltip |-> LeaveTooltip(FallbackLeave(d))]
    ELSE [type |-> "workday", tooltip |-> WORKDAY_TOOLTIP]

\* variant: the day dicts outlive the call, so a date that an earlier call
\* promoted in place is still smart_leave when the next call starts
FallbackDayMapShared(lookahead_days) ==
    LET working_days == get_working_days
        Kept(d) == {k \in DOMAIN seen :
                      /\ d \in DOMAIN seen[k].day_map.info
                      /\ seen[k].day_map.info[d].type = "smart_leave"}
    IN [order |-> [i \in 1..lookahead_days |-> today + (i - 1) + 1],
        info |-> [d \in {today + offset + 1 : offset \in 0..(lookahead_days - 1)} |->
                    IF Kept(d) # {}
                    THEN [type |-> "smart_leave", tooltip |-> SMART_TOOLTIP]
                    ELSE FallbackDay(d, working_days)]]

\* for offset in range(lookahead_days): d = today + (offset + 1) days; day_map[d] = ...
\* (the i-th key inserted is the one of offset i - 1)
FallbackDayMap(lookahead_days) ==
    LET working_days == get_working_days
    IN [order |-> [i \in 1..lookahead_days |-> today + (i - 1) + 1],
        info |-> [d \in {today + offset + 1 : offset \in 0..(lookahead_days - 1)} |->
                    FallbackDay(d, working_days)]]

(***************************************************************************)
(* _apply_bridge_detection(day_map): in place, left to right               *)
(***************************************************************************)
\* sorted(keys)
SortedSeq(keys) == SortSeq(keys, LAMBDA a, b : a < b)

\* while segment_end_idx + 1 < len(ordered_days) and day_map[...]["type"] == "workday"
RECURSIVE SegmentEnd(_, _, _)
SegmentEnd(day_map, ordered_days, segment_end_idx) ==
    IF segment_end_idx + 1 <= Len(ordered_days)
       /\ day_map.info[ordered_days[segment_end_idx + 1]].type = "workday"
    THEN SegmentEnd(day_map, ordered_days, segment_end_idx + 1)
    ELSE segment_end_idx

\* variant: a promoted date counts as part of a buffer
RECURSIVE ScanThroughSmart(_, _, _, _)
ScanThroughSmart(day_map, scan, step, flags) ==
    IF scan \in Keys(day_map) /\ day_map.info[scan].type \in NonWorkTypes \cup {"smart_leave"}
    THEN ScanThroughSmart(day_map, scan + step, step,
              [has_bridge |-> TRUE,
               has_holiday |-> flags.has_holiday \/ day_map.info[scan].type = "holiday"])
    ELSE flags

\* while scan in day_map and day_map[scan]["type"] in non_work_types: ... scan += step
RECURSIVE Scan(_, _, _, _)
Scan(day_map, scan, step, flags) ==
    IF scan \in Keys(day_map) /\ day_map.info[scan].type \in NonWorkTypes
    THEN Scan(day_map, scan + step, step,
              [has_bridge |-> TRUE,
               has_holiday |-> flags.has_holiday \/ day_map.info[scan].type = "holiday"])
    ELSE flags

NoFlags == [has_bridge |-> FALSE, has_holiday |-> FALSE]

\* variant: only the first date of the segment is promoted
PromoteFirstOnly(day_map, smart_day, segment_end) ==
    [day_map EXCEPT !.info[smart_day].type = "smart_leave",
                    !.info[smart_day].tooltip = SMART_TOOLTIP]

\* while smart_day <= segment_end: day_map[smart_day] = smart_leave
RECURSIVE Promote(_, _, _)
Promote(day_map, smart_day, segment_end) ==
    IF smart_day <= segment_end
    THEN Promote([day_map EXCEPT !.info[smart_day].type = "smart_leave",
                                 !.info[smart_day].tooltip = SMART_TOOLTIP],
                 smart_day + 1, segment_end)
    ELSE day_map

\* variant: both buffers must contain a holiday
QualifiesBothHolidays(day_map, segment_start, segment_end) ==
    LET prev_day == segment_start - 1
        next_day == segment_end + 1
        prev == Scan(day_map, prev_day, -1, NoFlags)
        next == Scan(day_map, next_day, 1, NoFlags)
    IN /\ prev_day \in Keys(day_map)
       /\ next_day \in Keys(day_map)
       /\ prev.has_bridge /\ next.has_bridge
       /\ prev.has_holiday /\ next.has_holiday

\* variant: a buffer on one side is enough and the window edge is not checked
QualifiesEitherSide(day_map, segment_start, segment_end) ==
    LET prev == Scan(day_map, segment_start - 1, -1, NoFlags)
        next == Scan(day_map, segment_end + 1, 1, NoFlags)
    IN (prev.has_bridge \/ next.has_bridge) /\ (prev.has_holiday \/ next.has_holiday)

\* the decision taken for the segment ordered_days[s..e], read from day_map
Qualifies(day_map, segment_start, segment_end) ==
    LET prev_day == segment_start - 1
        next_day == segment_end + 1
        prev == Scan(day_map, prev_day, -1, NoFlags)
        next == Scan(day_map, next_day, 1, NoFlags)
        has_holiday_neighbor == prev.has_holiday \/ next.has_holiday
    IN /\ prev_day \in Keys(day_map)
       /\ next_day \in Keys(day_map)
       /\ prev.has_bridge /\ next.has_bridge /\ has_holiday_neighbor

RECURSIVE BridgeLoopOnePromotion(_, _, _)
\* variant: the loop ends after the first segment it promotes
BridgeLoopOnePromotion(day_map, ordered_days, idx) ==
    IF idx > Len(ordered_days) THEN day_map
    ELSE IF day_map.info[ordered_days[idx]].type # "workday"
    THEN BridgeLoopOnePromotion(day_map, ordered_days, idx + 1)
    ELSE LET segment_end_idx == SegmentEnd(day_map, ordered_days, idx)
             segment_start == ordered_days[idx]
             segment_end == ordered_days[segment_end_idx]
         IN IF Qualifies(day_map, segment_start, segment_end)
            THEN Promote(day_map, segment_start, segment_end)
            ELSE BridgeLoopOnePromotion(day_map, ordered_days, segment_end_idx + 1)

RECURSIVE BridgeLoop(_, _, _)
BridgeLoop(day_map, ordered_days, idx) ==
    IF idx > Len(ordered_days) THEN day_map
    ELSE IF day_map.info[ordered_days[idx]].type # "workday"
    THEN BridgeLoop(day_map, ordered_days, idx + 1)
    ELSE LET segment_end_idx == SegmentEnd(day_map, ordered_days, idx)
             segment_start == ordered_days[idx]
             segment_end == ordered_days[segment_end_idx]
         IN IF Qualifies(day_map, segment_start, segment_end)
            THEN BridgeLoop(Promote(day_map, segment_start, segment_end),
                            ordered_days, segment_end_idx + 1)
            ELSE BridgeLoop(day_map, ordered_days, segment_end_idx + 1)

apply_bridge_detection(day_map) == BridgeLoop(day_map, SortedSeq(day_map.order), 1)

(***************************************************************************)
(* calendar_api(month, year): classification of one month, then the        *)
(* bridge detection written out again inside the view                      *)
(***************************************************************************)
\* start_date = date(year, month, 1)
CalStart(year, month) == ToOrdinal(year, month, 1)

\* variant: the first day of the next month is taken as the last day
CalEndNextMonth(year, month) ==
    IF month < 12 THEN ToOrdinal(year, month + 1, 1) ELSE ToOrdinal(year, 12, 31)

\* end_date = date(year, month + 1, 1) - timedelta(days=1) if month < 12 else date(year, 12, 31)
CalEnd(year, month) ==
    IF month < 12 THEN ToOrdinal(year, month + 1, 1) - 1 ELSE ToOrdinal(year, 12, 31)

\* working_days = workweek.working_days if workweek else [1, 2, 3, 4, 5]
CalWorkingDays ==
    LET ww == WorkWeekOf(user_company)
    IN IF ww # NoRow THEN ww.working_days ELSE DefaultWorkingDays

\* Holiday.objects.filter(date__range=[start_date, end_date]).filter(date=current).first()
CalHoliday(current, start_date, end_date) ==
    LET Keep(h) == start_date <= h.date /\ h.date <= end_date /\ h.date = current
    IN First(holidays, Keep)

\* next((l for l in leaves if l.start_date <= current <= l.end_date), None)
CalLeave(current, start_date, end_date) ==
    LET Keep(l) == /\ l.user = Me /\ l.start_date <= end_date /\ l.end_date >= start_date
                   /\ l.start_date <= current /\ current <= l.end_date
    IN First(leaves, Keep)

\* variant: the user's leave is looked up before the holiday
CalDayLeaveFirst(current, start_date, end_date, working_days) ==
    LET holiday == CalHoliday(current, start_date, end_date)
        leave == CalLeave(current, start_date, end_date)
        tagged ==
            IF ~InList(Weekday(current) + 1, working_days)
            THEN [type |-> "weekend", tooltip |-> WeekendTooltip(current)]
            ELSE IF leave # NoRow
            THEN [type |-> "leave", tooltip |-> LeaveTooltip(leave)]
            ELSE IF holiday # NoRow
            THEN [type |-> "holiday", tooltip |-> HolidayTooltip(holiday)]
            ELSE [type |-> "workday", tooltip |-> WORKDAY_TOOLTIP]
    IN [date |-> IsoFormat(current), type |-> tagged.type, tooltip |-> tagged.tooltip]

CalDay(current, start_date, end_date, working_days) ==
    LET holiday == CalHoliday(current, start_date, end_date)
        leave == CalLeave(current, start_date, end_date)
        tagged ==
            IF ~InList(Weekday(current) + 1, working_days)
            THEN [type |-> "weekend", tooltip |-> WeekendTooltip(current)]
            ELSE IF holiday # NoRow
            THEN [type |-> "holiday", tooltip |-> HolidayTooltip(holiday)]
            ELSE IF leave # NoRow
            THEN [type |-> "leave", tooltip |-> LeaveTooltip(leave)]
            ELSE [type |-> "workday", tooltip |-> WORKDAY_TOOLTIP]
    IN [date |-> IsoFormat(current), type |-> tagged.type, tooltip |-> tagged.tooltip]

\* current = start_date; while current <= end_date: all_days[current] = ...; current += 1 day
CalDayMap(year, month) ==
    LET start_date == CalStart(year, month)
        end_date == CalEnd(year, month)
        working_days == CalWorkingDays
    IN [order |-> [i \in 1..(end_date - start_date + 1) |-> start_date + (i - 1)],
        info |-> [current \in {d \in Dates : start_date <= d /\ d <= end_date} |->
                    CalDay(current, start_date, end_date, working_days)]]

RECURSIVE CalSegmentEnd(_, _, _)
CalSegmentEnd(all_days, ordered_days, segment_end_index) ==
    IF segment_end_index + 1 <= Len(ordered_days)
       /\ all_days.info[ordered_days[segment_end_index + 1]].type = "workday"
    THEN CalSegmentEnd(all_days, ordered_days, segment_end_index + 1)
    ELSE segment_end_index

RECURSIVE CalScan(_, _, _, _)
CalScan(all_days, scan_day, step, flags) ==
    IF scan_day \in Keys(all_days) /\ all_days.info[scan_day].type \in NonWorkTypes
    THEN CalScan(all_days, scan_day + step, step,
                 [has_bridge |-> TRUE,
                  has_holiday |-> flags.has_holiday \/ all_days.info[scan_day].type = "holiday"])
    ELSE flags

RECURSIVE CalPromote(_, _, _)
CalPromote(all_days, smart_day, segment_end) ==
    IF smart_day <= segment_end
    THEN CalPromote([all_days EXCEPT !.info[smart_day].type = "smart_leave",
                                     !.info[smart_day].tooltip = SMART_TOOLTIP],
                    smart_day + 1, segment_end)
    ELSE all_days

\* variant: any two buffers qualify, with or without a holiday
CalQualifiesNoHoliday(all_days, segment_start, segment_end) ==
    LET prev_day == segment_start - 1
        next_day == segment_end + 1
        prev == CalScan(all_days, prev_day, -1, NoFlags)
        next == CalScan(all_days, next_day, 1, NoFlags)
    IN /\ prev_day \in Keys(all_days)
       /\ next_day \in Keys(all_days)
       /\ prev.has_bridge /\ next.has_bridge

CalQualifies(all_days, segment_start, segment_end) ==
    LET prev_day == segment_start - 1
        next_day == segment_end + 1
        prev == CalScan(all_days, prev_day, -1, NoFlags)
        next == CalScan(all_days, next_day, 1, NoFlags)
        has_holiday_neighbor == prev.has_holiday \/ next.has_holiday
    IN /\ prev_day \in Keys(all_days)
       /\ next_day \in Keys(all_days)
       /\ prev.has_bridge /\ next.has_bridge /\ has_holiday_neighbor

RECURSIVE CalBridgeLoop(_, _, _)
CalBridgeLoop(all_days, ordered_days, idx) ==
    IF idx > Len(ordered_days) THEN all_days
    ELSE IF all_days.info[ordered_days[idx]].type # "workday"
    THEN CalBridgeLoop(all_days, ordered_days, idx + 1)
    ELSE LET segment_end_index == CalSegmentEnd(all_days, ordered_days, idx)
             segment_start == ordered_days[idx]
             segment_end == ordered_days[segment_end_index]
         IN IF CalQualifies(all_days, segment_start, segment_end)
            THEN CalBridgeLoop(CalPromote(all_days, segment_start, segment_end),
                               ordered_days, segment_end_index + 1)
            ELSE CalBridgeLoop(all_days, ordered_days, segment_end_index + 1)

CalBridge(all_days) == CalBridgeLoop(all_days, SortedSeq(all_days.order), 1)

(***************************************************************************)
(* Suggestion list of _fallback_suggestions                                *)
(***************************************************************************)
GENERIC_EXPLANATION == <<"Consider taking a short break soon - no obvious bridges detected.">>

\* for d, info in sorted(day_map.items()): if info["type"] == "smart_leave": append
RECURSIVE SmartSuggestions(_, _, _)
SmartSuggestions(day_map, ordered_days, i) ==
    IF i > Len(ordered_days) THEN <<>>
    ELSE IF day_map.info[ordered_days[i]].type = "smart_leave"
    THEN <<(<<LabelFormat(ordered_days[i]), SMART_TOOLTIP>>)>>
         \o SmartSuggestions(day_map, ordered_days, i + 1)
    ELSE SmartSuggestions(day_map, ordered_days, i + 1)

\* variant: the generic suggestion is appended whatever the list holds
FormatSuggestionsAlwaysGeneric(day_map) ==
    SmartSuggestions(day_map, SortedSeq(day_map.order), 1)
       \o <<(<<LabelFormat(today + 14), GENERIC_EXPLANATION>>)>>

\* if not suggestions: suggestions.append((today + 14 days, generic text))
FormatSuggestions(day_map) ==
    LET suggestions == SmartSuggestions(day_map, SortedSeq(day_map.order), 1)
    IN IF suggestions = <<>>
       THEN <<(<<LabelFormat(today + 14), GENERIC_EXPLANATION>>)>>
       ELSE suggestions

DEFAULT_LOOKAHEAD == 90

\* _fallback_suggestions(user, lookahead_days): the day map before and after
\* bridge detection and the list it returns
fallback_suggestions(lookahead_days) ==
    LET base == FallbackDayMap(lookahead_days)
        day_map == apply_bridge_detection(base)
    IN [base |-> base, day_map |-> day_map, suggestions |-> FormatSuggestions(day_map)]

(***************************************************************************)
(* JSON values as Python objects, and the Python operations the AI layer   *)
(* applies to them.  An evaluation yields a value or raises an exception.  *)
(***************************************************************************)
JNull == [t |-> "null"]
JNum(n) == [t |-> "num", n |-> n]
JStr(s) == [t |-> "str", s |-> s]
JList(items) == [t |-> "list", items |-> items]
JDict(m) == [t |-> "dict", m |-> m]
NotJson == [t |-> "invalid"]

Ok(v) == [exc |-> "none", v |-> v]
Raise(e) == [exc |-> e, v |-> JNull]

\* bool(x)
Truthy(x) ==
    CASE x.t = "null" -> FALSE
      [] x.t = "num" -> x.n # 0
      [] x.t = "str" -> x.s # ""
      [] x.t = "list" -> x.items # <<>>
      [] x.t = "dict" -> DOMAIN x.m # {}

\* x.get(key, default): only dict has the attribute
PyGet(x, key, default) ==
    IF x.t = "dict"
    THEN Ok(IF key \in DOMAIN x.m THEN x.m[key] ELSE default)
    ELSE Raise("AttributeError")

\* x[0]
PyIndex0(x) ==
    CASE x.t = "list" -> IF x.items = <<>> THEN Raise("IndexError") ELSE Ok(x.items[1])
      [] x.t = "str" -> IF x.s = "" THEN Raise("IndexError") ELSE Ok(JStr("c"))
      [] x.t = "dict" -> Raise("KeyError")
      [] OTHER -> Raise("TypeError")

\* iter(x): the items of a list; a str yields its characters and a dict its
\* keys, which are str objects (the first one is enough: using it raises)
PyIter(x) ==
    CASE x.t = "list" -> Ok(x.items)
      [] x.t = "str" -> Ok(IF x.s = "" THEN <<>> ELSE <<JStr("c")>>)
      [] x.t = "dict" -> Ok(IF DOMAIN x.m = {} THEN <<>>
                            ELSE <<JStr(CHOOSE k \in DOMAIN x.m : TRUE)>>)
      [] OTHER -> Raise("TypeError")

\* str.strip() on the texts that occur
Strip(s) == IF s \in {" ", "  "} THEN "" ELSE s

\* x.strip(): only str has the attribute
PyStrip(x) == IF x.t = "str" THEN Ok(JStr(Strip(x.s))) ELSE Raise("AttributeError")

(***************************************************************************)
(* _normalise_ai_payload and _fetch_ai_recommendations.  A result is       *)
(* [exc, none, v]: the exception that escapes, else None or the list v.    *)
(***************************************************************************)
RetNone == [exc |-> "none", none |-> TRUE, v |-> <<>>]
RetList(v) == [exc |-> "none", none |-> FALSE, v |-> v]
RetRaise(e) == [exc |-> e, none |-> TRUE, v |-> <<>>]

\* for idea in month_entry.get("ideas", []): ...
RECURSIVE NormIdeas(_, _, _, _)
NormIdeas(ideas, j, month_label, results) ==
    IF j > Len(ideas) THEN Ok(results)
    ELSE LET idea == ideas[j]
             start == PyGet(idea, "start", JNull)
             end == PyGet(idea, "end", start.v)
             reason0 == PyGet(idea, "reason", JStr(""))
             reason == PyStrip(reason0.v)
         IN IF start.exc # "none" THEN Raise(start.exc)
            ELSE IF reason.exc # "none" THEN Raise(reason.exc)
            ELSE IF ~(Truthy(month_label) /\ Truthy(start.v) /\ Truthy(reason.v))
            THEN NormIdeas(ideas, j + 1, month_label, results)
            ELSE LET descriptor ==
                         IF Truthy(end.v) /\ end.v # start.v
                         THEN <<month_label, start.v, end.v>>
                         ELSE <<month_label, start.v>>
                 IN NormIdeas(ideas, j + 1, month_label,
                              Append(results, <<descriptor, <<reason.v.s>> >>))

\* for month_entry in payload.get("suggestions", []): ...
RECURSIVE NormMonths(_, _, _)
NormMonths(entries, i, results) ==
    IF i > Len(entries) THEN Ok(results)
    ELSE LET month_entry == entries[i]
             month_label == PyGet(month_entry, "month", JNull)
             ideas0 == PyGet(month_entry, "ideas", JList(<<>>))
             ideas == PyIter(ideas0.v)
         IN IF month_label.exc # "none" THEN Raise(month_label.exc)
            ELSE IF ideas.exc # "none" THEN Raise(ideas.exc)
            ELSE LET r == NormIdeas(ideas.v, 1, month_label.v, results)
                 IN IF r.exc # "none" THEN r ELSE NormMonths(entries, i + 1, r.v)

normalise_ai_payload(payload) ==
    LET suggestions == PyGet(payload, "suggestions", JList(<<>>))
        entries == PyIter(suggestions.v)
    IN IF suggestions.exc # "none" THEN RetRaise(suggestions.exc)
       ELSE IF entries.exc # "none" THEN RetRaise(entries.exc)
       ELSE LET r == NormMonths(entries.v, 1, <<>>)
            IN IF r.exc # "none" THEN RetRaise(r.exc)
               ELSE IF r.v = <<>> THEN RetNone      \* return results or None
               ELSE RetList(r.v)

\* json.loads on the texts that occur
GoodIdea == JDict([start |-> JStr("2026-01-02"), end |-> JStr("2026-01-02"),
                   reason |-> JStr("Bridge New Year and the weekend")])
RangeIdea == JDict([start |-> JStr("2026-01-05"), end |-> JStr("2026-01-06"),
                    reason |-> JStr("Long break")])
BlankIdea == JDict([start |-> JStr("2026-01-05"), reason |-> JStr(" ")])
NullReasonIdea == JDict([start |-> JStr("2026-01-05"), reason |-> JNull])
MonthOf1(ideas) == JDict([month |-> JStr("January 2026"), ideas |-> JList(ideas)])
Suggesting(entries) == JDict([suggestions |-> entries])

Texts == {"oops", "[]", "{}", "null-suggestions", "string-entry", "one-idea",
          "two-ideas", "blank-reason", "null-reason", "null-ideas"}

JsonLoadsText(text) ==
    CASE text = "oops" -> NotJson
      [] text = "[]" -> JList(<<>>)
      [] text = "{}" -> JDict(<<>>)
      [] text = "null-suggestions" -> Suggesting(JNull)
      [] text = "string-entry" -> Suggesting(JList(<<JStr("January")>>))
      [] text = "one-idea" -> Suggesting(JList(<<MonthOf1(<<GoodIdea>>)>>))
      [] text = "two-ideas" -> Suggesting(JList(<<MonthOf1(<<GoodIdea, BlankIdea, RangeIdea>>)>>))
      [] text = "blank-reason" -> Suggesting(JList(<<MonthOf1(<<BlankIdea>>)>>))
      [] text = "null-reason" -> Suggesting(JList(<<MonthOf1(<<NullReasonIdea>>)>>))
      [] text = "null-ideas" ->
           Suggesting(JList(<<JDict([month |-> JStr("January 2026"), ideas |-> JNull])>>))

\* json.loads(x): TypeError unless x is a str, JSONDecodeError when it does not parse
JsonLoads(x) ==
    IF x.t # "str" THEN Raise("TypeError")
    ELSE IF JsonLoadsText(x.s) = NotJson THEN Raise("JSONDecodeError")
    ELSE Ok(JsonLoadsText(x.s))

\* except (requests.HTTPError, requests.ConnectionError, requests.Timeout), with
\* the subclasses requests defines
CaughtByPost == {"HTTPError", "ConnectionError", "Timeout", "ConnectTimeout",
                 "ReadTimeout", "SSLError", "ProxyError"}

\* except (ValueError, KeyError, TypeError, json.JSONDecodeError)
CaughtByParse == {"ValueError", "KeyError", "TypeError", "JSONDecodeError"}

\* the second try block: what it leaves in parsed, or the early return None
ParseBody(body) ==
    LET output == PyGet(body, "output", JList(<<>>))
        first_out == PyIndex0(output.v)
        content_blocks == PyGet(first_out.v, "content", JList(<<>>))
        first_block == PyIndex0(content_blocks.v)
        text == PyGet(first_block.v, "text", JStr("{}"))
        parsed == JsonLoads(text.v)
    IN IF body = NotJson THEN Raise("JSONDecodeError")
       ELSE IF output.exc # "none" THEN Raise(output.exc)
       ELSE IF ~Truthy(output.v) THEN Raise("return None")
       ELSE IF first_out.exc # "none" THEN Raise(first_out.exc)
       ELSE IF content_blocks.exc # "none" THEN Raise(content_blocks.exc)
       ELSE IF ~Truthy(content_blocks.v) THEN Raise("return None")
       ELSE IF first_block.exc # "none" THEN Raise(first_block.exc)
       ELSE IF text.exc # "none" THEN Raise(text.exc)
       ELSE parsed

\* _fetch_ai_recommendations(snapshot) for one outcome of the HTTP exchange
fetch_ai_recommendations(http) ==
    IF ~http.api_key THEN RetNone
    ELSE IF http.raised # "none"
    THEN (IF http.raised \in CaughtByPost THEN RetNone ELSE RetRaise(http.raised))
    ELSE IF 400 <= http.status /\ http.status < 600 THEN RetNone  \* raise_for_status()
    ELSE LET parsed == ParseBody(http.body)
         IN IF parsed.exc = "return None" \/ parsed.exc \in CaughtByParse THEN RetNone
            ELSE IF parsed.exc # "none" THEN RetRaise(parsed.exc)
            ELSE normalise_ai_payload(parsed.v)

(***************************************************************************)
(* Outcomes of the HTTP exchange with the AI service                       *)
(***************************************************************************)
TextBody(text) ==
    JDict([output |-> JList(<<JDict([content |-> JList(<<JDict([text |-> text])>>)])>>)])

Bodies ==
    <<NotJson,
      JList(<<>>),
      JDict(<<>>),
      JDict([output |-> JList(<<JStr("message")>>)]),
      JDict([output |-> JDict([id |-> JNum(1)])]),
      JDict([output |-> JList(<<JDict([content |-> JList(<<>>)])>>)]),
      TextBody(JNull),
      TextBody(JStr("oops")),
      TextBody(JStr("[]")),
      TextBody(JStr("{}")),
      TextBody(JStr("null-suggestions")),
      TextBody(JStr("string-entry")),
      TextBody(JStr("one-idea")),
      TextBody(JStr("two-ideas")),
      TextBody(JStr("blank-reason")),
      TextBody(JStr("null-reason")),
      TextBody(JStr("null-ideas"))>>

PostErrors == <<"ConnectionError", "ReadTimeout", "ChunkedEncodingError", "TooManyRedirects">>
ErrorStatuses == <<429, 500>>

HttpOutcomes ==
    <<[api_key |-> FALSE, raised |-> "none", status |-> 0, body |-> JNull]>>
    \o [i \in 1..Len(PostErrors) |->
          [api_key |-> TRUE, raised |-> PostErrors[i], status |-> 0, body |-> JNull]]
    \o [i \in 1..Len(ErrorStatuses) |->
          [api_key |-> TRUE, raised |-> "none", status |-> ErrorStatuses[i], body |-> JNull]]
    \o [i \in 1..Len(Bodies) |->
          [api_key |-> TRUE, raised |-> "none", status |-> 200, body |-> Bodies[i]]]

(***************************************************************************)
(* State                                                                   *)
(***************************************************************************)
WorkingDayLists == {<<>>, <<1, 2, 3, 4, 5>>, <<1, 2, 3, 4, 5, 6>>, <<1, 3, 5>>}
Todays == {FirstDate - 1}
LeaveStatuses == {"pending"}
HolidayCompanies == {"acme"}

HolidayRow(i, c, d) ==
    [company |-> c, date |-> d, name |-> HolidayNames[i], is_optional |-> FALSE,
     recurring |-> FALSE]

\* tables of at most max rows, primary keys in date order
HolidayTables(max) ==
    UNION {
      { [i \in 1..n |-> HolidayRow(i, cs[i], ds[i])] :
          cs \in [1..n -> HolidayCompanies],
          ds \in {f \in [1..n -> DateDomain] : \A i \in 1..(n - 1) : f[i] <= f[i + 1]} }
      : n \in 0..max }

LeaveRow(s, e, st) ==
    [user |-> Me, leave_type |-> "Casual Leave", start_date |-> s, end_date |-> e,
     status |-> st, reviewed_by |-> "None"]

LeaveTables ==
    {<<>>} \cup
    { <<LeaveRow(s, s + n - 1, st)>> : s \in DateDomain, n \in 1..MaxLeaveLen, st \in LeaveStatuses }

WorkWeekTables ==
    {<<>>} \cup { <<[company |-> "acme", working_days |-> wd]>> : wd \in WorkingDayLists }

\* the accounts: role and company of each user (None: no company)
Accounts ==
    [alice |-> [role |-> "employee", company |-> "acme"],
     bob |-> [role |-> "manager", company |-> "acme"],
     carol |-> [role |-> "hr", company |-> "acme"],
     dave |-> [role |-> "admin", company |-> "None"],
     erin |-> [role |-> "manager", company |-> "globex"]]

\* no _fallback_suggestions call is in progress
Idle == [pc |-> "idle"]

NoRequest == [year |-> 0, month |-> 0, lookahead_days |-> 0, http |-> HttpOutcomes[1]]

NoResponse ==
    [op |-> "none", request |-> NoRequest, exc |-> "none", base |-> EmptyDict,
     day_map |-> EmptyDict, body |-> <<>>, suggestions |-> <<>>]

Init ==
    /\ today \in Todays
    /\ user_company = "acme"
    /\ workweek \in WorkWeekTables
    /\ holidays \in HolidayTables(MaxHolidays)
    /\ leaves \in LeaveTables
    /\ response = NoResponse
    /\ users = Accounts
    /\ balances = <<>>
    /\ seen = <<>>
    /\ run = Idle
    /\ designations = <<>>
    /\ policies = <<>>
    /\ approvals = <<>>

\* the states in which the AI layer is exercised
InitAI ==
    /\ today \in Todays
    /\ user_company = "acme"
    /\ workweek \in WorkWeekTables
    /\ holidays \in HolidayTables(1)
    /\ leaves \in LeaveTables
    /\ response = NoResponse
    /\ users = Accounts
    /\ balances = <<>>
    /\ seen = <<>>
    /\ run = Idle
    /\ designations = <<>>
    /\ policies = <<>>
    /\ approvals = <<>>

(***************************************************************************)
(* Handlers                                                                *)
(***************************************************************************)
\* the (year, month) queries: the GET parameters, or today's month by default
CalQueries ==
    {[year |-> 2025, month |-> 12], [year |-> 2026, month |-> 1],
     [year |-> YearOf(today), month |-> MonthOf(today)]}

calendar_api ==
    /\ response.op = "none"
    /\ \E q \in CalQueries :
         LET base == CalDayMap(q.year, q.month)
             all_days == CalBridge(base)
         IN response' = [op |-> "calendar_api",
                         request |-> [NoRequest EXCEPT !.year = q.year, !.month = q.month],
                         exc |-> "none", base |-> base, day_map |-> all_days,
                         body |-> Values(all_days), suggestions |-> <<>>]
    /\ UNCHANGED <<today, user_company, workweek, holidays, leaves, users, balances, seen, run, designations, policies, approvals>>

Lookaheads == {0} \cup ((MaxLookahead - 2)..MaxLookahead)

call_fallback_suggestions ==
    /\ response.op = "none"
    /\ \E n \in Lookaheads :
         LET r == fallback_suggestions(n)
         IN response' = [op |-> "fallback_suggestions",
                         request |-> [NoRequest EXCEPT !.lookahead_days = n],
                         exc |-> "none", base |-> r.base, day_map |-> r.day_map,
                         body |-> <<>>, suggestions |-> r.suggestions]
    /\ UNCHANGED <<today, user_company, workweek, holidays, leaves, users, balances, seen, run, designations, policies, approvals>>

\* suggest_best_leaves(user); the snapshot only feeds the prompt
suggest_best_leaves ==
    /\ response.op = "none"
    /\ LET fb == fallback_suggestions(DEFAULT_LOOKAHEAD)
       IN \E i \in 1..Len(HttpOutcomes) :
            LET ai_suggestions == fetch_ai_recommendations(HttpOutcomes[i])
            IN response' =
                 [op |-> "suggest_best_leaves",
                  request |-> [NoRequest EXCEPT !.http = HttpOutcomes[i],
                                                !.lookahead_days = DEFAULT_LOOKAHEAD],
                  exc |-> ai_suggestions.exc,
                  base |-> IF ai_suggestions = RetNone THEN fb.base ELSE EmptyDict,
                  day_map |-> IF ai_suggestions = RetNone THEN fb.day_map ELSE EmptyDict,
                  body |-> <<>>,
                  suggestions |->
                      IF ai_suggestions.exc # "none" THEN <<>>
                      ELSE IF ~ai_suggestions.none THEN ai_suggestions.v
                      ELSE fb.suggestions]
    /\ UNCHANGED <<today, user_company, workweek, holidays, leaves, users, balances, seen, run, designations, policies, approvals>>

\* the response is sent and the next request can be served
Respond ==
    /\ response.op # "none"
    /\ response' = NoResponse
    /\ UNCHANGED <<today, user_company, workweek, holidays, leaves, users, balances, seen, run, designations, policies, approvals>>

Next == calendar_api \/ call_fallback_suggestions \/ Respond

Spec == Init /\ [][Next]_vars

NextAI == suggest_best_leaves \/ Respond

SpecAI == InitAI /\ [][NextAI]_vars

(***************************************************************************)
(* Properties.  They are stated over the response of a handler: its        *)
(* request, the day map before (base) and after (day_map) bridge           *)
(* detection, and what it returns.                                         *)
(***************************************************************************)
IsCal == response.op = "calendar_api"
IsFallback == response.op = "fallback_suggestions"
Classified == IsCal \/ IsFallback

\* the queried window, from the request alone
WindowFirst ==
    IF IsCal THEN ToOrdinal(response.request.year, response.request.month, 1)
    ELSE today + 1

WindowLast ==
    IF IsCal
    THEN ToOrdinal(response.request.year, response.request.month,
                   DaysInMonth(response.request.year, response.request.month))
    ELSE today + response.request.lookahead_days

Base(d) == response.base.info[d]
Tagged(d) == response.day_map.info[d]
BaseDays == Keys(response.base)

\* C1: the classification holds exactly one entry per calendar date of the
\* queried window, both endpoints included, emitted in ascending date order:
\* calendar_api returns the days 1..last of the month in order, and
\* _fallback_suggestions maps today+1 .. today+lookahead_days in order.
C1_WindowCoverage ==
    /\ IsCal =>
         /\ Len(response.body) =
               DaysInMonth(response.request.year, response.request.month)
         /\ \A i \in 1..Len(response.body) :
               response.body[i].date =
                  <<response.request.year, response.request.month, i>>
    /\ Classified =>
         /\ Keys(response.day_map) = WindowFirst..WindowLast
         /\ Len(response.day_map.order) = WindowLast - WindowFirst + 1
         /\ \A i \in 1..Len(response.day_map.order) :
               response.day_map.order[i] = WindowFirst + i - 1

C1_Witness ==
    /\ IsCal
    /\ response.request.month = 12
    /\ Len(response.body) = 31
    /\ response.body[31].date = <<2025, 12, 31>>

\* the user has a leave request whose interval contains d
InLeave(d) ==
    \E i \in 1..Len(leaves) :
        leaves[i].user = Me /\ leaves[i].start_date <= d /\ d <= leaves[i].end_date

\* a holiday of the user's company falls on d
MatchesHoliday(d) ==
    \E i \in 1..Len(holidays) :
        holidays[i].company = user_company /\ holidays[i].date = d

\* the working-day set the handler used
WorkingDaysUsed == IF IsCal THEN CalWorkingDays ELSE get_working_days

\* C2: a date that lies inside one of the user's leave intervals and also
\* matches a holiday is classified leave, not holiday.
C2_LeaveBeatsHoliday ==
    Classified =>
        \A d \in BaseDays : (InLeave(d) /\ MatchesHoliday(d)) => Base(d).type = "leave"

\* C3: a date is tagged weekend only if its weekday is not a working day and
\* it matches no holiday and lies in no leave interval.
C3_WeekendLowestPrecedence ==
    Classified =>
        \A d \in BaseDays :
            Base(d).type = "weekend" =>
                /\ ~InList(Weekday(d) + 1, WorkingDaysUsed)
                /\ ~MatchesHoliday(d)
                /\ ~InLeave(d)

(***************************************************************************)
(* Segments and buffers of the base classification, stated directly        *)
(***************************************************************************)
IsWorkday(d) == d \in BaseDays /\ Base(d).type = "workday"

\* first dates of the maximal runs of workday dates
SegmentStarts == {s \in BaseDays : IsWorkday(s) /\ ~IsWorkday(s - 1)}

\* last date of the maximal run that starts at s
SegmentLast(s) ==
    CHOOSE e \in BaseDays :
        /\ e >= s
        /\ \A k \in s..e : IsWorkday(k)
        /\ ~IsWorkday(e + 1)

SegmentDays(s) == s..SegmentLast(s)

\* the weekend/holiday dates contiguous with the segment, before and after it
BackBuffer(s) ==
    {d \in BaseDays : d < s /\ \A k \in d..(s - 1) : Base(k).type \in {"weekend", "holiday"}}

ForwardBuffer(s) ==
    {d \in BaseDays :
        d > SegmentLast(s)
        /\ \A k \in (SegmentLast(s) + 1)..d : Base(k).type \in {"weekend", "holiday"}}

WeekendOnly(buffer) == buffer # {} /\ \A d \in buffer : Base(d).type = "weekend"
HasHoliday(buffer) == \E d \in buffer : Base(d).type = "holiday"

Promoted(s) == \A d \in SegmentDays(s) : Tagged(d).type = "smart_leave"
LeftAlone(s) == \A d \in SegmentDays(s) : Tagged(d) = Base(d)

Inside(s) == (s - 1) \in BaseDays /\ (SegmentLast(s) + 1) \in BaseDays

WeekendAndHoliday(s) ==
    \/ WeekendOnly(BackBuffer(s)) /\ HasHoliday(ForwardBuffer(s))
    \/ HasHoliday(BackBuffer(s)) /\ WeekendOnly(ForwardBuffer(s))

\* C4: a maximal workday segment whose neighbours are inside the window, with
\* a non-empty weekend-only buffer on one side and a buffer containing a
\* holiday on the other side, is promoted to smart_leave.
C4_HolidayAdjacentPromoted ==
    Classified =>
        \A s \in SegmentStarts : (Inside(s) /\ WeekendAndHoliday(s)) => Promoted(s)

C4_Witness ==
    /\ IsFallback
    /\ \E s \in SegmentStarts :
          /\ Inside(s) /\ WeekendAndHoliday(s) /\ Promoted(s)
          /\ Base(s - 1).type = "holiday"
          /\ Base(SegmentLast(s) + 1).type = "weekend"

\* C5: a workday segment with no holiday-tagged date in either buffer is never
\* promoted, and a window without any holiday-tagged date has no smart_leave.
C5_WeekendOnlyNotPromoted ==
    Classified =>
        /\ \A s \in SegmentStarts :
              ~HasHoliday(BackBuffer(s) \cup ForwardBuffer(s)) => LeftAlone(s)
        /\ (\A d \in BaseDays : Base(d).type # "holiday") =>
              (\A d \in BaseDays : Tagged(d).type # "smart_leave")

C5_Witness ==
    /\ Classified
    /\ \E s \in SegmentStarts :
          /\ Inside(s)
          /\ WeekendOnly(BackBuffer(s)) /\ WeekendOnly(ForwardBuffer(s))
          /\ LeftAlone(s)
    /\ \E d \in BaseDays : Base(d).type = "holiday"

\* C6: a workday segment that contains the first or the last date of the
\* window is never promoted, whatever lies on its other side.
C6_BoundaryNotPromoted ==
    Classified =>
        \A s \in SegmentStarts :
            (WindowFirst \in SegmentDays(s) \/ WindowLast \in SegmentDays(s)) => LeftAlone(s)

C6_Witness ==
    /\ Classified
    /\ \E s \in SegmentStarts :
          /\ WindowFirst \in SegmentDays(s)
          /\ HasHoliday(ForwardBuffer(s))
          /\ LeftAlone(s)
    /\ \E s \in SegmentStarts :
          /\ WindowLast \in SegmentDays(s)
          /\ HasHoliday(BackBuffer(s))
          /\ LeftAlone(s)

Tags == {"workday", "weekend", "holiday", "leave", "smart_leave"}

\* C7: bridge detection keeps the set of dates, leaves every date with one
\* of the five tags, turns each workday segment either entirely into
\* smart_leave (with the smart tooltip) or not at all, and keeps the tag and
\* tooltip of every leave, holiday and weekend date.
C7_AllOrNothing ==
    Classified =>
        /\ Keys(response.day_map) = BaseDays
        /\ response.day_map.order = response.base.order
        /\ \A d \in BaseDays :
              /\ Tagged(d).type \in Tags
              /\ Base(d).type # "workday" => Tagged(d) = Base(d)
              /\ Tagged(d).type = "smart_leave" =>
                    Base(d).type = "workday" /\ Tagged(d).tooltip = SMART_TOOLTIP
        /\ \A s \in SegmentStarts : Promoted(s) \/ LeftAlone(s)

C7_Witness ==
    /\ Classified
    /\ \E s \in SegmentStarts : Promoted(s) /\ SegmentLast(s) > s
    /\ \E s \in SegmentStarts : LeftAlone(s)
    /\ \E d \in BaseDays : Tagged(d).type = "leave"
    /\ \E d \in BaseDays : Tagged(d).type = "holiday"
    /\ \E d \in BaseDays : Tagged(d).type = "weekend"

\* the decision for the segment of d, read from the base classification only
QualifiesInBase(s) ==
    /\ Inside(s)
    /\ BackBuffer(s) # {} /\ ForwardBuffer(s) # {}
    /\ HasHoliday(BackBuffer(s) \cup ForwardBuffer(s))

SegmentOf(d) == CHOOSE s \in SegmentStarts : d \in SegmentDays(s)

\* C8: the in-place, left-to-right result of _apply_bridge_detection is the
\* result of deciding every segment on the base classification and applying
\* the promotions afterwards.
C8_InPlaceEqualsSnapshot ==
    IsFallback =>
        \A d \in BaseDays :
            Tagged(d) =
               IF IsWorkday(d) /\ QualifiesInBase(SegmentOf(d))
               THEN [type |-> "smart_leave", tooltip |-> SMART_TOOLTIP]
               ELSE Base(d)

\* two segments are promoted, the later one scanning back to the earlier
C8_Witness ==
    /\ IsFallback
    /\ \E s1, s2 \in SegmentStarts :
          /\ s1 < s2 /\ Promoted(s1) /\ Promoted(s2)
    /\ \E s1, s2 \in SegmentStarts :
          /\ s1 < s2 /\ Promoted(s1) /\ LeftAlone(s2) /\ Inside(s2)
          /\ \A d \in (SegmentLast(s1) + 1)..(s2 - 1) : Base(d).type \in {"weekend", "holiday"}

(***************************************************************************)
(* The AI layer                                                            *)
(***************************************************************************)
IsSuggest == response.op = "suggest_best_leaves"

\* the exchange delivered a payload of the requested schema
WellFormedTexts == {"one-idea", "two-ideas", "blank-reason"}

AiWellFormed(http) ==
    /\ http.api_key /\ http.raised = "none" /\ http.status = 200
    /\ \E text \in WellFormedTexts : http.body = TextBody(JStr(text))

\* the exchange delivered at least one complete idea
AiUsable(http) ==
    /\ http.api_key /\ http.raised = "none" /\ http.status = 200
    /\ \E text \in {"one-idea", "two-ideas"} : http.body = TextBody(JStr(text))

\* the call was attempted and failed: request error, timeout, error status,
\* body that is not JSON, JSON of an unexpected shape
AiFailed(http) == http.api_key /\ ~AiWellFormed(http)

GenericOnly == <<(<<LabelFormat(today + 14), GENERIC_EXPLANATION>>)>>

\* C9: for every outcome of the AI call and every calendar,
\* suggest_best_leaves returns a list with at least one (label, explanation)
\* pair, and exactly the one generic suggestion when the AI gives nothing
\* usable and the lookahead window has no smart_leave date.
C9_NeverEmpty ==
    IsSuggest =>
        /\ response.exc = "none"
        /\ Len(response.suggestions) >= 1
        /\ \A i \in 1..Len(response.suggestions) : Len(response.suggestions[i]) = 2
        /\ (~AiUsable(response.request.http)
            /\ \A d \in Keys(response.day_map) : Tagged(d).type # "smart_leave")
              => response.suggestions = GenericOnly

\* C10: every failure of the AI call is caught inside suggest_best_leaves,
\* which then returns the output of _fallback_suggestions; no exception
\* reaches the caller.
C10_AiFailureCaught ==
    (IsSuggest /\ AiFailed(response.request.http)) =>
        /\ response.exc = "none"
        /\ response.suggestions = fallback_suggestions(DEFAULT_LOOKAHEAD).suggestions

(***************************************************************************)
(* Holiday rows with their flags, leave requests in every status.          *)
(* apps.py stores the fixed holidays once, under their 2025 dates, with    *)
(* recurring=True; the admin site sets is_optional.                        *)
(***************************************************************************)
AllStatuses == {"pending", "approved", "rejected"}

\* New Year's Day as apps.py stores it, the same day one year on, and the
\* Tuesday after it
StoredDates == {ToOrdinal(2025, 1, 1), ToOrdinal(2026, 1, 1), ToOrdinal(2026, 1, 6)}

FlaggedRow(i, d, optional, recurring) ==
    [company |-> "acme", date |-> d, name |-> HolidayNames[i], is_optional |-> optional,
     recurring |-> recurring]

FlaggedTables ==
    UNION {
      { [i \in 1..n |-> FlaggedRow(i, ds[i], os[i], rs[i])] :
          ds \in {f \in [1..n -> StoredDates] : \A i \in 1..(n - 1) : f[i] <= f[i + 1]},
          os \in [1..n -> BOOLEAN],
          rs \in [1..n -> BOOLEAN] }
      : n \in 0..MaxHolidays }

ReviewedLeaveRow(s, e, st) ==
    [LeaveRow(s, e, st) EXCEPT !.reviewed_by = IF st = "pending" THEN "None" ELSE "bob"]

StatusLeaveTables ==
    {<<>>} \cup
    { <<ReviewedLeaveRow(s, s + n - 1, st)>> :
        s \in {ToOrdinal(2026, 1, 1), ToOrdinal(2026, 1, 2), ToOrdinal(2026, 1, 7)},
        n \in 1..MaxLeaveLen, st \in AllStatuses }

InitRows ==
    /\ today \in Todays
    /\ user_company = "acme"
    /\ workweek = <<[company |-> "acme", working_days |-> DefaultWorkingDays]>>
    /\ holidays \in FlaggedTables
    /\ leaves \in StatusLeaveTables
    /\ response = NoResponse
    /\ users = Accounts
    /\ balances = <<>>
    /\ seen = <<>>
    /\ run = Idle
    /\ designations = <<>>
    /\ policies = <<>>
    /\ approvals = <<>>

SpecRows == InitRows /\ [][Next]_vars

\* the month and day of two dates agree
SameMonthDay(a, b) == MonthOf(a) = MonthOf(b) /\ DayOf(a) = DayOf(b)

\* a recurring holiday of the user's company falls on the month and day of d
MatchesRecurring(d) ==
    \E i \in 1..Len(holidays) :
        /\ holidays[i].company = user_company
        /\ holidays[i].recurring
        /\ SameMonthDay(holidays[i].date, d)

\* C11: a recurring holiday matches every window date with its month and day,
\* whatever the stored year, so a working day outside the user's leave that a
\* recurring holiday matches is tagged holiday; and a date is tagged holiday
\* only if a holiday is stored on that very date or a recurring one matches it.
C11_RecurringHolidayMatches ==
    Classified =>
        /\ \A d \in BaseDays :
              (MatchesRecurring(d) /\ InList(Weekday(d) + 1, WorkingDaysUsed) /\ ~InLeave(d))
                 => Base(d).type = "holiday"
        /\ \A d \in BaseDays :
              Base(d).type = "holiday" =>
                 \/ \E i \in 1..Len(holidays) : holidays[i].date = d
                 \/ MatchesRecurring(d)

\* the company's WorkWeek row holds an empty list of working days
EmptyWorkingDays ==
    WorkWeekOf(user_company) # NoRow /\ WorkWeekOf(user_company).working_days = <<>>

\* C12: with an empty working-day set the classification ends in a
\* validation error instead of a day map.
C12_EmptyWorkingDaysRejected ==
    (Classified /\ EmptyWorkingDays) => response.exc = "ValidationError"

\* a holiday that is not optional applies to d: stored on d, or recurring on
\* the month and day of d
MatchesFirmHoliday(d) ==
    \E i \in 1..Len(holidays) :
        /\ ~holidays[i].is_optional
        /\ \/ holidays[i].date = d
           \/ holidays[i].recurring /\ SameMonthDay(holidays[i].date, d)

\* C15: an optional holiday is informational only: a date is tagged holiday
\* only if a holiday that is not optional applies to it, and every promoted
\* segment has such a date in one of its buffers.
C15_OptionalHolidayInformational ==
    Classified =>
        /\ \A d \in BaseDays : Base(d).type = "holiday" => MatchesFirmHoliday(d)
        /\ \A s \in SegmentStarts :
              (Inside(s) /\ Promoted(s)) =>
                 \E d \in BackBuffer(s) \cup ForwardBuffer(s) :
                     Base(d).type = "holiday" /\ MatchesFirmHoliday(d)

\* the user has a request in one of the given statuses whose interval holds d
InLeaveWithStatus(d, statuses) ==
    \E i \in 1..Len(leaves) :
        /\ leaves[i].user = Me /\ leaves[i].status \in statuses
        /\ leaves[i].start_date <= d /\ d <= leaves[i].end_date

\* C16: a date is tagged leave only if a pending or approved request of the
\* user covers it, and a working day without holiday that such a request
\* covers is tagged leave.
C16_RejectedLeaveNotTagged ==
    Classified =>
        \A d \in BaseDays :
            /\ Base(d).type = "leave" => InLeaveWithStatus(d, {"pending", "approved"})
            /\ (InLeaveWithStatus(d, {"pending", "approved"})
                /\ InList(Weekday(d) + 1, WorkingDaysUsed)
                /\ ~(\E i \in 1..Len(holidays) : holidays[i].date = d))
                  => Base(d).type = "leave"

\* the dates of the final day map tagged smart_leave
SmartDates == {d \in Keys(response.day_map) : Tagged(d).type = "smart_leave"}

\* position of a smart_leave date among the smart_leave dates, by date
SmartRank(d) == Cardinality({e \in SmartDates : e <= d})

\* C14: when the window has a smart_leave date, _fallback_suggestions returns
\* one (label, explanation) pair per smart_leave date, in ascending date
\* order, and nothing else.
C14_OnePairPerSmartLeave ==
    (IsFallback /\ SmartDates # {}) =>
        /\ Len(response.suggestions) = Cardinality(SmartDates)
        /\ \A d \in SmartDates :
              response.suggestions[SmartRank(d)] = <<LabelFormat(d), SMART_TOOLTIP>>

C14_Witness ==
    /\ IsFallback
    /\ Cardinality(SmartDates) >= 3
    /\ Len(response.suggestions) = Cardinality(SmartDates)
    /\ \E d, e \in SmartDates : e > d + 1 /\ SmartRank(e) = SmartRank(d) + 1

(***************************************************************************)
(* Repeated calls: what each request returned the first time it was made   *)
(* is kept, so that a later call with the same request can be compared.    *)
(***************************************************************************)
RequestKey == [op |-> response.op, request |-> response.request]

Returned ==
    [day_map |-> response.day_map, body |-> response.body,
     suggestions |-> response.suggestions]

\* the response is sent; its content is kept if the request is a new one
Remember ==
    /\ response.op # "none"
    /\ seen' = [k \in (DOMAIN seen) \cup {RequestKey} |->
                  IF k \in DOMAIN seen THEN seen[k] ELSE Returned]
    /\ response' = NoResponse
    /\ UNCHANGED <<today, user_company, workweek, holidays, leaves, users, balances, run, designations, policies, approvals>>

InitRepeat ==
    /\ today \in Todays
    /\ user_company = "acme"
    /\ workweek = <<>>
    /\ holidays \in HolidayTables(1)
    /\ leaves \in {<<>>, <<LeaveRow(FirstDate + 1, FirstDate + 1, "pending")>>}
    /\ response = NoResponse
    /\ users = Accounts
    /\ balances = <<>>
    /\ seen = <<>>
    /\ run = Idle
    /\ designations = <<>>
    /\ policies = <<>>
    /\ approvals = <<>>

NextRepeat == calendar_api \/ call_fallback_suggestions \/ Remember

SpecRepeat == InitRepeat /\ [][NextRepeat]_vars

\* the tag of every date of a day map
TagsOf(dm) == [d \in Keys(dm) |-> dm.info[d].type]

LeaveTypeNames == {"Casual Leave"}

\* LeaveType.default_allocation
default_allocation(leave_type) == DefaultAllocation

\* LeaveRequest.total_days
total_days(leave) == (leave.end_date - leave.start_date) + 1

Max(a, b) == IF a >= b THEN a ELSE b

\* the users who submit requests, and the first day they ask for
Applicants == {"alice", "bob"}
FlowStarts == {FirstDate + 1}

\* the balances the sign-up signal created from LeaveType.default_allocation
SignupBalances ==
    [k \in {"alice", "carol", "erin"} \X LeaveTypeNames |-> default_allocation(k[2])]

\* LeaveBalance.objects.get_or_create(user=, leave_type=, defaults={"available_days": ...})
GetOrCreateBalance(user, leave_type) ==
    [k \in (DOMAIN balances) \cup {<<user, leave_type>>} |->
        IF k \in DOMAIN balances THEN balances[k] ELSE default_allocation(leave_type)]

\* variant: the balance is never found insufficient
InsufficientNever(balance, leave) == FALSE

\* balance.available_days < leave.total_days
Insufficient(balance, leave) == balance < total_days(leave)

\* what apply_leave answers: the flash message and the submitted request
ApplyResponse(leave, message) ==
    [NoResponse EXCEPT !.op = "apply_leave", !.exc = message, !.body = <<leave>>]

\* apply_leave, POST with submit_leave and a valid form
ApplyLeave(user, leave_type, start_date, end_date) ==
    LET leave == [user |-> user, leave_type |-> leave_type, start_date |-> start_date,
                  end_date |-> end_date, status |-> "pending", reviewed_by |-> "None"]
        created == GetOrCreateBalance(user, leave_type)
    IN /\ balances' = created
       /\ IF Insufficient(created[<<user, leave_type>>], leave)
          THEN /\ leaves' = leaves
               /\ response' = ApplyResponse(leave, "Insufficient leave balance.")
          ELSE /\ leaves' = Append(leaves, leave)
               /\ response' = ApplyResponse(leave, "Leave request submitted successfully.")
       /\ UNCHANGED <<today, user_company, workweek, holidays, users, seen, run,
                      designations, policies, approvals>>

apply_leave ==
    /\ Len(leaves) < MaxRequests
    /\ \E user \in Applicants, leave_type \in LeaveTypeNames, start_date \in FlowStarts,
          n \in 1..MaxLeaveLen :
          ApplyLeave(user, leave_type, start_date, start_date + n - 1)

\* request.user.role not in ["manager", "admin", "hr"]
MayNotReview(reviewer) == users[reviewer].role \notin {"manager", "admin", "hr"}

\* variant: the reviewer is never taken for the requester
IsOwnRequestNever(leave, reviewer) == FALSE

\* leave.user == request.user
IsOwnRequest(leave, reviewer) == leave.user = reviewer

\* request.user.company and leave.user.company != request.user.company
OtherCompany(leave, reviewer) ==
    /\ users[reviewer].company # "None"
    /\ users[leave.user].company # users[reviewer].company

\* variant: the deduction without the floor at zero
DeductUnclamped(leave) ==
    IF <<leave.user, leave.leave_type>> \in DOMAIN balances
    THEN [balances EXCEPT ![<<leave.user, leave.leave_type>>] = @ - total_days(leave)]
    ELSE balances

\* balance.available_days = max(balance.available_days - leave.total_days, 0)
Deduct(leave) ==
    IF <<leave.user, leave.leave_type>> \in DOMAIN balances
    THEN [balances EXCEPT ![<<leave.user, leave.leave_type>>] = Max(@ - total_days(leave), 0)]
    ELSE balances

\* approve_leave(request, request_id) with request.user = reviewer
ApproveLeave(reviewer, request_id) ==
    IF MayNotReview(reviewer) \/ request_id > Len(leaves)
    THEN UNCHANGED vars
    ELSE LET leave == leaves[request_id]
         IN IF IsOwnRequest(leave, reviewer) \/ OtherCompany(leave, reviewer)
            THEN UNCHANGED vars
            ELSE /\ leaves' = [leaves EXCEPT ![request_id].status = "approved",
                                             ![request_id].reviewed_by = reviewer]
                 /\ balances' = Deduct(leave)
                 /\ UNCHANGED <<today, user_company, workweek, holidays, response,
                                users, seen, run, designations, policies, approvals>>

approve_leave ==
    \E reviewer \in DOMAIN users, request_id \in 1..MaxRequests :
        ApproveLeave(reviewer, request_id)

\* reject_leave(request, request_id) with request.user = reviewer
RejectLeave(reviewer, request_id) ==
    IF MayNotReview(reviewer) \/ request_id > Len(leaves)
    THEN UNCHANGED vars
    ELSE LET leave == leaves[request_id]
         IN IF IsOwnRequest(leave, reviewer) \/ OtherCompany(leave, reviewer)
            THEN UNCHANGED vars
            ELSE /\ leaves' = [leaves EXCEPT ![request_id].status = "rejected",
                                             ![request_id].reviewed_by = reviewer]
                 /\ UNCHANGED <<today, user_company, workweek, holidays, response,
                                users, balances, seen, run, designations, policies, approvals>>

reject_leave ==
    \E reviewer \in DOMAIN users, request_id \in 1..MaxRequests :
        RejectLeave(reviewer, request_id)

InitFlow ==
    /\ today \in Todays
    /\ user_company = "acme"
    /\ workweek = <<>>
    /\ holidays = <<>>
    /\ leaves = <<>>
    /\ response = NoResponse
    /\ users = Accounts
    /\ balances = SignupBalances
    /\ seen = <<>>
    /\ run = Idle
    /\ designations = <<>>
    /\ policies = <<>>
    /\ approvals = <<>>

NextFlow == apply_leave \/ approve_leave \/ reject_leave

SpecFlow == InitFlow /\ [][NextFlow]_vars

\* C17: a request's status and reviewer change only while it is pending:
\* approved and rejected are terminal under approve_leave and reject_leave.
C17_ReviewedIsTerminal ==
    [][\A i \in 1..Len(leaves) :
          leaves[i].status # "pending" =>
             /\ leaves'[i].status = leaves[i].status
             /\ leaves'[i].reviewed_by = leaves[i].reviewed_by]_vars

RECURSIVE ApprovedDays(_, _, _)
\* total_days of the approved requests of a user and leave type, rows i..
ApprovedDays(user, leave_type, i) ==
    IF i > Len(leaves) THEN 0
    ELSE (IF /\ leaves[i].user = user /\ leaves[i].leave_type = leave_type
             /\ leaves[i].status = "approved"
          THEN total_days(leaves[i]) ELSE 0)
         + ApprovedDays(user, leave_type, i + 1)

\* C18: every balance equals the allocation of its leave type minus the
\* total_days of the user's approved requests of that type, each counted once.
C18_LedgerMatchesApprovals ==
    \A k \in DOMAIN balances :
        balances[k] = default_allocation(k[2]) - ApprovedDays(k[1], k[2], 1)

\* C20: a request that approve_leave or reject_leave has decided carries a
\* reviewer, and the reviewer is not the user who made the request.
C20_NoSelfReview ==
    \A i \in 1..Len(leaves) :
        leaves[i].status # "pending" =>
            /\ leaves[i].reviewed_by \in DOMAIN users
            /\ leaves[i].reviewed_by # leaves[i].user

\* a manager's own request decided by someone else, next to a request the
\* manager decided
C20_Witness ==
    \E i, j \in 1..Len(leaves) :
        /\ leaves[i].user = "bob" /\ leaves[i].status = "approved"
        /\ users[leaves[i].reviewed_by].role \in {"hr", "admin"}
        /\ leaves[j].user = "alice" /\ leaves[j].status = "rejected"
        /\ leaves[j].reviewed_by = "bob"

(***************************************************************************)
(* upload_holidays: the parsed file is a list of (name, date) pairs        *)
(***************************************************************************)
HolidaysOn(rows, company, d) ==
    {i \in 1..Len(rows) : rows[i].company = company /\ rows[i].date = d}

RECURSIVE UploadRows(_, _, _, _)
\* for name, holiday_date in holidays_data: get_or_create(company=, date=,
\* defaults={"name": name}); a row that exists gets the new name.  get()
\* raises when several rows share the company and date, which ends the loop.
UploadRows(rows, company, holidays_data, i) ==
    IF i > Len(holidays_data) THEN rows
    ELSE LET name == holidays_data[i][1]
             holiday_date == holidays_data[i][2]
             found == HolidaysOn(rows, company, holiday_date)
         IN IF found = {}
            THEN UploadRows(Append(rows, [company |-> company, date |-> holiday_date,
                                          name |-> name, is_optional |-> FALSE,
                                          recurring |-> FALSE]),
                            company, holidays_data, i + 1)
            ELSE IF Cardinality(found) = 1
            THEN UploadRows([rows EXCEPT ![CHOOSE k \in found : TRUE].name = name],
                            company, holidays_data, i + 1)
            ELSE rows

\* the files uploaded: one holiday, or two holidays
UploadFiles ==
    {<<(<<"Festival", FirstDate + 2>>)>>,
     <<(<<"Festival", FirstDate>>), (<<"Founders Day", FirstDate + 3>>)>>}

UploadHolidays(user, holidays_data) ==
    IF users[user].role \notin {"manager", "hr", "admin"} \/ holidays_data = <<>>
    THEN UNCHANGED vars
    ELSE /\ holidays' = UploadRows(holidays, users[user].company, holidays_data, 1)
         /\ UNCHANGED <<today, user_company, workweek, leaves, response, users, balances,
                        seen, run, designations, policies, approvals>>

(***************************************************************************)
(* _fallback_suggestions step by step: one iteration of the loop over the  *)
(* offsets is one step, and each iteration sends its own queries, so other *)
(* requests can write between two iterations.                              *)
(***************************************************************************)
RaceLookaheads == {4}

\* today = date.today(); working_days = set(_get_working_days(user)); day_map = {}
fallback_begin ==
    /\ run.pc # "loop"
    /\ response.op = "none"
    /\ \E n \in RaceLookaheads :
         run' = [pc |-> "loop", lookahead_days |-> n, working_days |-> get_working_days,
                 offset |-> 0, day_map |-> EmptyDict,
                 read_points |-> {fallback_suggestions(n).day_map}]
    /\ UNCHANGED <<today, user_company, workweek, holidays, leaves, response, users,
                   balances, seen, designations, policies, approvals>>

\* one iteration: d = today + offset + 1 is classified from the rows as they
\* are now.  read_points collects what a call reading all its rows at this
\* moment would return.
fallback_step ==
    /\ run.pc = "loop"
    /\ run.offset < run.lookahead_days
    /\ LET d == today + run.offset + 1
       IN run' = [run EXCEPT
                    !.offset = @ + 1,
                    !.day_map = [order |-> Append(@.order, d),
                                 info |-> [k \in (DOMAIN @.info) \cup {d} |->
                                             IF k = d THEN FallbackDay(d, run.working_days)
                                             ELSE @.info[k]]],
                    !.read_points = @ \cup {fallback_suggestions(run.lookahead_days).day_map}]
    /\ UNCHANGED <<today, user_company, workweek, holidays, leaves, response, users,
                   balances, seen, designations, policies, approvals>>

\* after the loop: _apply_bridge_detection(day_map), the suggestion list, return
fallback_finish ==
    /\ run.pc = "loop"
    /\ run.offset = run.lookahead_days
    /\ LET day_map == apply_bridge_detection(run.day_map)
       IN /\ response' = [op |-> "fallback_suggestions",
                          request |-> [NoRequest EXCEPT !.lookahead_days = run.lookahead_days],
                          exc |-> "none", base |-> run.day_map, day_map |-> day_map,
                          body |-> <<>>, suggestions |-> FormatSuggestions(day_map)]
          /\ run' = [pc |-> "returned",
                     read_points |->
                        run.read_points \cup {fallback_suggestions(run.lookahead_days).day_map}]
    /\ UNCHANGED <<today, user_company, workweek, holidays, leaves, users, balances, seen, designations, policies, approvals>>

\* the writes of other requests that arrive while the call is running
upload_holidays ==
    /\ run.pc = "loop"
    /\ \E user \in {"alice", "bob"}, holidays_data \in UploadFiles :
          UploadHolidays(user, holidays_data)

submit_leave ==
    /\ run.pc = "loop"
    /\ Len(leaves) < MaxRequests
    /\ \E n \in 1..MaxLeaveLen, start_date \in FlowStarts :
          ApplyLeave(Me, "Casual Leave", start_date, start_date + n - 1)

review_leave ==
    /\ run.pc = "loop"
    /\ \E request_id \in 1..MaxRequests : ApproveLeave("bob", request_id)

NextRace ==
    \/ fallback_begin \/ fallback_step \/ fallback_finish \/ Respond
    \/ upload_holidays \/ submit_leave \/ review_leave

SpecRace == InitFlow /\ [][NextRace]_vars

\* C19: the day map a call returns is the one a call reading all its rows at
\* one moment of the run would return: the rows as they were before an
\* interleaved write, or as they are after it.
C19_OneReadPoint ==
    (run.pc = "returned" /\ IsFallback) => response.day_map \in run.read_points

\* C21: every request decided through approve_leave or reject_leave was
\* decided by a reviewer whose company is the requesting user's company, a
\* reviewer without company included.
C21_ReviewerOfSameCompany ==
    \A i \in 1..Len(leaves) :
        leaves[i].status # "pending" =>
            users[leaves[i].reviewed_by].company = users[leaves[i].user].company

(***************************************************************************)
(* Roles: company_users, manage_company_roles and the sign-up signal.      *)
(* A user's e-mail address is <name>@<domain>; the name identifies the     *)
(* account and a company is identified by its domain.  The designations    *)
(* are a function of the designated e-mail address.                        *)
(***************************************************************************)
ROLE_CHOICES == {"employee", "manager", "hr", "admin"}
ElevatedRoles == {"hr", "manager", "admin"}

\* the people who sign up while the model runs, and their e-mail domain
Newcomers == {"frank"}
EmailDomain(name) ==
    IF name = "erin" THEN "globex" ELSE IF name = "dave" THEN "None" ELSE "acme"

\* CompanyLeavePolicy.objects.filter(company=company)
PoliciesOf(company) == {k \in DOMAIN policies : k[1] = company}

\* the balance rows the signal adds for a user: one per policy of the
\* company, or one per leave type when the company has no policy
SignupRows(user, company) ==
    IF company # "None" /\ PoliciesOf(company) # {}
    THEN [k \in {<<user, p[2]>> : p \in PoliciesOf(company)} |-> policies[<<company, k[2]>>]]
    ELSE [k \in {user} \X LeaveTypeNames |-> default_allocation(k[2])]

\* get_or_create for each of the rows: an existing row is kept
WithSignupRows(user, company) ==
    LET rows == SignupRows(user, company)
    IN [k \in (DOMAIN balances) \cup (DOMAIN rows) |->
          IF k \in DOMAIN balances THEN balances[k] ELSE rows[k]]

\* create_user_profile(request, user): company from the e-mail domain, role
\* from an active designation of the address or employee, then the balances.
\* designator_role in a designation row is the role its author had when it
\* was made; the program stores the author only.
SignUp(name) ==
    LET company == EmailDomain(name)
        designated == name \in DOMAIN designations
                         /\ designations[name].company = company
                         /\ designations[name].is_active
        role == IF designated THEN designations[name].role ELSE "employee"
    IN /\ name \notin DOMAIN users
       /\ users' = [u \in (DOMAIN users) \cup {name} |->
                      IF u = name THEN [role |-> role, company |-> company] ELSE users[u]]
       /\ balances' = WithSignupRows(name, company)
       /\ response' = [NoResponse EXCEPT !.op = "user_signed_up", !.body = <<name, role>>]
       /\ UNCHANGED <<today, user_company, workweek, holidays, leaves, seen, run,
                      designations, policies, approvals>>

user_signed_up == \E name \in Newcomers : SignUp(name)

\* manage_company_roles, POST of a valid RoleDesignationForm(email, role)
ManageCompanyRoles(actor, email, role) ==
    IF \/ users[actor].role \notin {"hr", "admin", "manager"}
       \/ users[actor].company = "None"
       \/ email = actor
       \/ EmailDomain(email) # users[actor].company
       \/ email \in DOMAIN users
       \/ email \in DOMAIN designations
    THEN UNCHANGED vars
    ELSE /\ designations' =
               [e \in (DOMAIN designations) \cup {email} |->
                  IF e = email
                  THEN [company |-> users[actor].company, role |-> role,
                        designated_by |-> actor, designator_role |-> users[actor].role,
                        is_active |-> TRUE]
                  ELSE designations[e]]
         /\ UNCHANGED <<today, user_company, workweek, holidays, leaves, response, users,
                        balances, seen, run, policies, approvals>>

manage_company_roles ==
    \E actor \in DOMAIN users, email \in Newcomers \cup {"alice"}, role \in ROLE_CHOICES :
        ManageCompanyRoles(actor, email, role)

\* what company_users answers: the flash message, and with it the role the
\* actor had and the role asked for
RoleResponse(actor, new_role, message) ==
    [NoResponse EXCEPT !.op = "company_users", !.exc = message,
                       !.body = <<users[actor].role, new_role>>]

\* company_users, POST with update_role, user_id and role
CompanyUsers(actor, user_id, new_role) ==
    IF users[actor].role \notin {"hr", "admin", "manager"} \/ users[actor].company = "None"
    THEN UNCHANGED vars
    ELSE LET Answer(message) ==
                 /\ response' = RoleResponse(actor, new_role, message)
                 /\ UNCHANGED <<today, user_company, workweek, holidays, leaves, users,
                                balances, seen, run, designations, policies, approvals>>
         IN IF user_id \notin DOMAIN users
               \/ users[user_id].company # users[actor].company
            THEN Answer("User not found.")
            ELSE IF user_id = actor /\ new_role \in {"hr", "manager", "admin"}
            THEN Answer("You cannot change your own role to HR/Manager/Admin.")
            ELSE IF new_role \in {"hr", "manager", "admin"}
                    /\ users[actor].role \notin {"hr", "admin"}
            THEN Answer("Only HR or Admin can assign HR/Manager roles.")
            ELSE /\ users' = [users EXCEPT ![user_id].role = new_role]
                 /\ response' = RoleResponse(actor, new_role, "Updated")
                 /\ UNCHANGED <<today, user_company, workweek, holidays, leaves, balances,
                                seen, run, designations, policies, approvals>>

company_users ==
    \E actor \in {"bob", "carol"}, user_id \in {"alice", "bob", "erin"},
       new_role \in ROLE_CHOICES :
        CompanyUsers(actor, user_id, new_role)

NextRoles == company_users \/ manage_company_roles \/ user_signed_up

SpecRoles == InitFlow /\ [][NextRoles]_vars

\* C22: no account obtains the role hr, manager or admin through a manager:
\* a role update to one of these roles was made by hr or admin, and an
\* account that signed up under a designation for one of these roles was
\* designated by hr or admin.
C22_ManagerCannotElevate ==
    /\ (response.op = "company_users" /\ response.exc = "Updated"
        /\ response.body[2] \in ElevatedRoles)
          => response.body[1] \in {"hr", "admin"}
    /\ \A e \in DOMAIN designations :
          (e \in DOMAIN users /\ designations[e].is_active
           /\ designations[e].role \in ElevatedRoles)
             => designations[e].designator_role \in {"hr", "admin"}

(***************************************************************************)
(* apply_leave alone, from every balance the user can have                 *)
(***************************************************************************)
InitApply ==
    /\ today \in Todays
    /\ user_company = "acme"
    /\ workweek = <<>>
    /\ holidays = <<>>
    /\ leaves = <<>>
    /\ response = NoResponse
    /\ users = Accounts
    /\ balances \in {<<>>} \cup
          {[k \in Applicants \X LeaveTypeNames |-> b] : b \in 0..DefaultAllocation}
    /\ seen = <<>>
    /\ run = Idle
    /\ designations = <<>>
    /\ policies = <<>>
    /\ approvals = <<>>

NextApply == apply_leave \/ Respond

SpecApply == InitApply /\ [][NextApply]_vars

\* the days the user has for a leave type at submission: the balance row, or
\* the allocation the row is created with
AvailableAtSubmission(user, leave_type) ==
    IF <<user, leave_type>> \in DOMAIN balances
    THEN balances[<<user, leave_type>>]
    ELSE default_allocation(leave_type)

\* C23: apply_leave saves the request exactly when the available days are at
\* least its total_days; otherwise no request is created, every existing
\* balance keeps its value and the error message is shown.
C23_AppliedOnlyWithinBalance ==
    [][response'.op = "apply_leave" =>
         LET leave == response'.body[1]
         IN IF AvailableAtSubmission(leave.user, leave.leave_type) >= total_days(leave)
            THEN /\ leaves' = Append(leaves, leave)
                 /\ response'.exc = "Leave request submitted successfully."
            ELSE /\ leaves' = leaves
                 /\ \A k \in DOMAIN balances : balances'[k] = balances[k]
                 /\ response'.exc = "Insufficient leave balance."]_vars

\* a two-day request refused on a balance of one day
C23_Witness ==
    /\ response.op = "apply_leave"
    /\ response.exc = "Insufficient leave balance."
    /\ total_days(response.body[1]) = 2
    /\ balances[<<response.body[1].user, response.body[1].leave_type>>] = 1
    /\ leaves = <<>>

(***************************************************************************)
(* The balance ledger: sign-up, apply_leave with any pair of dates,        *)
(* approve_leave, reject_leave and the yearly reset                        *)
(***************************************************************************)
MaxBalance == 5

\* CompanyLeavePolicy rows of the companies: none, or days_per_year for acme
PolicyTables ==
    {<<>>} \cup {[k \in {"acme"} \X LeaveTypeNames |-> d] : d \in {0, DefaultAllocation - 1}}

\* LeaveRequestForm has no clean(): any end_date is valid, before start_date too
apply_leave_any_dates ==
    /\ Len(leaves) < MaxRequests
    /\ \E leave_type \in LeaveTypeNames, start_date \in FlowStarts,
          end_date \in (FirstDate + 1 - MaxLeaveLen)..(FirstDate + MaxLeaveLen) :
          ApplyLeave(Me, leave_type, start_date, end_date)

\* approve_leave while the requester's balance is below MaxBalance
approve_leave_capped ==
    \E reviewer \in DOMAIN users, request_id \in 1..MaxRequests :
        /\ request_id <= Len(leaves)
        /\ \A k \in DOMAIN balances : balances[k] < MaxBalance
        /\ ApproveLeave(reviewer, request_id)

\* Command.handle(): every user of every company gets the days of the
\* company's policies, or the default allocation of every leave type
ResetRows ==
    LET members == {u \in DOMAIN users : users[u].company # "None"}
        keys == UNION {DOMAIN SignupRows(u, users[u].company) : u \in members}
    IN [k \in keys |-> SignupRows(k[1], users[k[1]].company)[k]]

reset_leave_balances ==
    /\ balances' = [k \in (DOMAIN balances) \cup (DOMAIN ResetRows) |->
                      IF k \in DOMAIN ResetRows THEN ResetRows[k] ELSE balances[k]]
    /\ UNCHANGED <<today, user_company, workweek, holidays, leaves, response, users, seen,
                   run, designations, policies, approvals>>

InitLedger ==
    /\ today \in Todays
    /\ user_company = "acme"
    /\ workweek = <<>>
    /\ holidays = <<>>
    /\ leaves = <<>>
    /\ response = NoResponse
    /\ users = Accounts
    /\ balances = SignupBalances
    /\ seen = <<>>
    /\ run = Idle
    /\ designations = <<>>
    /\ policies \in PolicyTables
    /\ approvals = <<>>

NextLedger ==
    \/ user_signed_up
    \/ apply_leave_any_dates
    \/ approve_leave_capped
    \/ reject_leave
    \/ reset_leave_balances

SpecLedger == InitLedger /\ [][NextLedger]_vars

\* C24: from non-negative allocations, no balance is ever negative, whatever
\* the sequence of sign-up, apply_leave, approve_leave, reject_leave and reset.
C24_BalanceNeverNegative == \A k \in DOMAIN balances : balances[k] >= 0

\* a balance brought to zero by approvals that exceed it
C24_Witness ==
    /\ balances[<<Me, "Casual Leave">>] = 0
    /\ ApprovedDays(Me, "Casual Leave", 1) >= 1
    /\ policies = <<>>

\* C25: approve_leave never raises a balance, whatever request apply_leave
\* saved, a request whose end_date is before its start_date included.
C25_ApprovalNeverIncreases ==
    [][approve_leave => \A k \in DOMAIN balances : balances'[k] <= balances[k]]_vars

(***************************************************************************)
(* Two companies' holidays, on the eve of the month that is queried        *)
(***************************************************************************)
TenantDates == {ToOrdinal(2026, 1, 1), ToOrdinal(2026, 1, 2), ToOrdinal(2026, 1, 5)}

TenantHolidayTables ==
    UNION {
      { [i \in 1..n |-> HolidayRow(i, cs[i], ds[i])] :
          cs \in [1..n -> {"acme", "globex"}],
          ds \in {f \in [1..n -> TenantDates] : \A i \in 1..(n - 1) : f[i] <= f[i + 1]} }
      : n \in 0..MaxHolidays }

TenantLeaveTables ==
    {<<>>} \cup
    { <<LeaveRow(s, s + n - 1, "pending")>> : s \in TenantDates, n \in 1..MaxLeaveLen }

InitTenants ==
    /\ today = ToOrdinal(2025, 12, 31)
    /\ user_company = "acme"
    /\ workweek \in WorkWeekTables
    /\ holidays \in TenantHolidayTables
    /\ leaves \in TenantLeaveTables
    /\ response = NoResponse
    /\ users = Accounts
    /\ balances = <<>>
    /\ seen = <<>>
    /\ run = Idle
    /\ designations = <<>>
    /\ policies = <<>>
    /\ approvals = <<>>

NextTenants == calendar_api \/ Respond

SpecTenants == InitTenants /\ [][NextTenants]_vars

\* the month asked of calendar_api is the window today+1 .. of
\* _fallback_suggestions with lookahead_days = the length of the month
SameWindow == IsCal /\ WindowFirst = today + 1

\* both take the same list of working days
SameWorkingDays == CalWorkingDays = get_working_days

\* both see the same holidays in the window
SameHolidays ==
    \A d \in WindowFirst..WindowLast :
        {holidays[i] : i \in {j \in DOMAIN holidays : holidays[j].date = d}} =
        {holidays[i] : i \in {j \in DOMAIN holidays :
                                 holidays[j].date = d /\ holidays[j].company = user_company}}

C27_OwnCompanyHolidaysOnly ==
    IsCal =>
        \A d \in Keys(response.day_map) :
            Tagged(d).type = "holiday" =>
                \E i \in DOMAIN holidays :
                    holidays[i].company = user_company /\ holidays[i].date = d

(***************************************************************************)
(* Buffers stop at a leave date; bridge detection applied twice            *)
(***************************************************************************)
\* the date right before or right after the segment is tagged leave
LeaveAdjacent(s) ==
    \/ (s - 1) \in BaseDays /\ Base(s - 1).type = "leave"
    \/ (SegmentLast(s) + 1) \in BaseDays /\ Base(SegmentLast(s) + 1).type = "leave"

\* C28: a workday segment whose immediately preceding or following date is
\* tagged leave is never promoted, even when a weekend or holiday lies just
\* beyond that leave date.
C28_LeaveEndsBuffer ==
    Classified => \A s \in SegmentStarts : LeaveAdjacent(s) => LeftAlone(s)

\* a segment with a holiday right after it and, before it, a leave date with
\* a weekend or holiday just beyond
C28_Witness ==
    /\ Classified
    /\ \E s \in SegmentStarts :
          /\ Inside(s)
          /\ Base(s - 1).type = "leave"
          /\ (s - 2) \in BaseDays /\ Base(s - 2).type \in {"weekend", "holiday"}
          /\ HasHoliday(ForwardBuffer(s))
          /\ LeftAlone(s)

\* day maps of MapLen consecutive dates, every date with any of the five tags
MapLen == 6

TooltipOf(d, type) ==
    CASE type = "workday" -> WORKDAY_TOOLTIP
      [] type = "weekend" -> WeekendTooltip(d)
      [] type = "holiday" -> <<"holiday", HolidayNames[1]>>
      [] type = "leave" -> <<"Your Leave", "Casual Leave">>
      [] OTHER -> SMART_TOOLTIP

DayMaps ==
    {[order |-> [i \in 1..MapLen |-> FirstDate + (i - 1)],
      info |-> [d \in FirstDate..(FirstDate + MapLen - 1) |->
                  [type |-> types[d], tooltip |-> TooltipOf(d, types[d])]]] :
        types \in [FirstDate..(FirstDate + MapLen - 1) -> Tags]}

InitBridge ==
    /\ today \in Todays
    /\ user_company = "acme"
    /\ workweek = <<>>
    /\ holidays = <<>>
    /\ leaves = <<>>
    /\ response \in {[NoResponse EXCEPT !.op = "day_map", !.day_map = m] : m \in DayMaps}
    /\ users = Accounts
    /\ balances = <<>>
    /\ seen = <<>>
    /\ run = Idle
    /\ designations = <<>>
    /\ policies = <<>>
    /\ approvals = <<>>

\* _apply_bridge_detection(day_map) on the map at hand, a first time or again
call_apply_bridge_detection ==
    /\ response.op \in {"day_map", "bridge_detection"}
    /\ response' = [response EXCEPT !.op = "bridge_detection",
                                    !.base = response.day_map,
                                    !.day_map = apply_bridge_detection(response.day_map)]
    /\ UNCHANGED <<today, user_company, workweek, holidays, leaves, users, balances, seen,
                   run, designations, policies, approvals>>

NextBridge == call_apply_bridge_detection

SpecBridge == InitBridge /\ [][NextBridge]_vars

IsBridged == response.op = "bridge_detection"

\* C29: applying _apply_bridge_detection to its own output changes no tag
\* and no tooltip: no further workday is promoted, no smart_leave reverted.
C29_BridgeIdempotent ==
    IsBridged => apply_bridge_detection(response.day_map) = response.day_map

\* a first application that promoted a segment and left another one, inside
\* the map, as workdays
C29_Witness ==
    /\ IsBridged
    /\ \E s \in SegmentStarts : Promoted(s)
    /\ \E s \in SegmentStarts : Inside(s) /\ LeftAlone(s)

(***************************************************************************)
(* approve_leave statement by statement, several reviewers at a time: no   *)
(* transaction and no row lock surround the balance read and its save      *)
(***************************************************************************)
Reviewers == {"bob", "carol", "dave"}

\* two pending requests of the same user and leave type
PendingPairs ==
    { <<LeaveRow(FirstDate + 1, FirstDate + t1, "pending"),
        LeaveRow(FirstDate + 6, FirstDate + 5 + t2, "pending")>> :
        t1 \in 1..MaxLeaveLen, t2 \in 1..MaxLeaveLen }

InitApprove ==
    /\ today \in Todays
    /\ user_company = "acme"
    /\ workweek = <<>>
    /\ holidays = <<>>
    /\ leaves \in PendingPairs
    /\ response = NoResponse
    /\ users = Accounts
    /\ balances = SignupBalances
    /\ seen = <<>>
    /\ run = Idle
    /\ designations = <<>>
    /\ policies = <<>>
    /\ approvals = <<>>

\* the reviewer's request is at position pc, holding the objects it loaded
InFlight(reviewer, pc, leave, balance) ==
    [r \in (DOMAIN approvals) \cup {reviewer} |->
        IF r = reviewer THEN [pc |-> pc, leave |-> leave, balance |-> balance]
        ELSE approvals[r]]

\* the checks, then leave.status = "approved"; leave.reviewed_by = request.user; leave.save()
approve_leave_save_request ==
    \E reviewer \in Reviewers, request_id \in 1..MaxRequests :
        /\ reviewer \notin DOMAIN approvals
        /\ request_id <= Len(leaves)
        /\ ~MayNotReview(reviewer)
        /\ ~IsOwnRequest(leaves[request_id], reviewer)
        /\ ~OtherCompany(leaves[request_id], reviewer)
        /\ leaves' = [leaves EXCEPT ![request_id].status = "approved",
                                    ![request_id].reviewed_by = reviewer]
        /\ approvals' = InFlight(reviewer, "saved",
                                 [id |-> request_id, user |-> leaves[request_id].user,
                                  leave_type |-> leaves[request_id].leave_type,
                                  total_days |-> total_days(leaves[request_id])], NoRow)
        /\ UNCHANGED <<today, user_company, workweek, holidays, response, users, balances,
                       seen, run, designations, policies>>

\* balance = LeaveBalance.objects.filter(user=leave.user, leave_type=leave.leave_type).first()
approve_leave_read_balance ==
    \E reviewer \in DOMAIN approvals :
        LET leave == approvals[reviewer].leave
            key == <<leave.user, leave.leave_type>>
        IN /\ approvals[reviewer].pc = "saved"
           /\ approvals' = InFlight(reviewer, "read", leave,
                                    IF key \in DOMAIN balances
                                    THEN [available_days |-> balances[key]]
                                    ELSE NoRow)
           /\ UNCHANGED <<today, user_company, workweek, holidays, leaves, response, users,
                          balances, seen, run, designations, policies>>

\* if balance: balance.available_days = max(balance.available_days - leave.total_days, 0);
\* balance.save()
approve_leave_save_balance ==
    \E reviewer \in DOMAIN approvals :
        LET leave == approvals[reviewer].leave
            balance == approvals[reviewer].balance
            key == <<leave.user, leave.leave_type>>
        IN /\ approvals[reviewer].pc = "read"
           /\ balances' = IF balance # NoRow
                          THEN [balances EXCEPT
                                  ![key] = Max(balance.available_days - leave.total_days, 0)]
                          ELSE balances
           /\ approvals' = InFlight(reviewer, "done", leave, balance)
           /\ UNCHANGED <<today, user_company, workweek, holidays, leaves, response, users,
                          seen, run, designations, policies>>

NextApprove ==
    \/ approve_leave_save_request
    \/ approve_leave_read_balance
    \/ approve_leave_save_balance

SpecApprove == InitApprove /\ [][NextApprove]_vars

\* C30: when two reviewers have approved two different pending requests of
\* the same user and leave type, whatever the interleaving of their balance
\* reads and saves, the balance is max(initial - total_days1 - total_days2, 0).
C30_NoLostDecrement ==
    \A r1 \in DOMAIN approvals, r2 \in DOMAIN approvals :
        (/\ DOMAIN approvals = {r1, r2}
         /\ approvals[r1].pc = "done" /\ approvals[r2].pc = "done"
         /\ approvals[r1].leave.id # approvals[r2].leave.id)
        => balances[<<Me, "Casual Leave">>] =
              Max(DefaultAllocation - approvals[r1].leave.total_days
                    - approvals[r2].leave.total_days, 0)

====
